---- MODULE Spec2Model ----
(***************************************************************************)
(* Model of dataranges.py, the data range checker for Naev: one pass over  *)
(* the star systems and one over the assets, each followed by its report.  *)
(*                                                                         *)
(* Numbers.  The metrics the script reads are counts and magnitudes; they  *)
(* are drawn from small naturals, which IEEE doubles represent exactly.    *)
(* Mean and variance are kept as exact fractions <<n, d>>; the standard    *)
(* deviation is kept as the square root of a fraction.  The mismatch       *)
(* percentage is computed in IEEE-754 binary64, bit by bit, as CPython     *)
(* computes (c - m) / c * 100 before math.ceil.                            *)
(***************************************************************************)
EXTENDS Integers, Sequences, FiniteSets, TLC

VARIABLES
    files,      \* what datafiles('SSystems') / datafiles('Assets') yield
    pc,         \* position of main()
    ssystems,   \* list built at lines 58-61
    assets,     \* list built at lines 204-207
    idx,        \* number of records the current for loop has consumed
    sv,         \* locals of the system pass (lines 63-79)
    av,         \* locals of the asset pass (lines 209-218)
    out,        \* lines printed so far
    err         \* uncaught exception that ended the run, or "none"

vars == <<files, pc, ssystems, assets, idx, sv, av, out, err>>

----------------------------------------------------------------------------
(* Bounds of the model *)

MaxSys == 4
MaxAssets == 3
MaxCount == 20

(* float('Inf'): larger than every metric value of the model *)
Inf == 1000000

----------------------------------------------------------------------------
(* Sequence helpers *)

(* Sums and joins split the sequence in halves, which keeps the          *)
(* evaluation shallow; the arithmetic is exact, so the order is free.     *)
RECURSIVE SumSeq(_)
SumSeq(s) ==
    IF s = <<>> THEN 0
    ELSE IF Len(s) = 1 THEN s[1]
    ELSE LET h == Len(s) \div 2
         IN SumSeq(SubSeq(s, 1, h)) + SumSeq(SubSeq(s, h + 1, Len(s)))

Prefix(s, n) == SubSeq(s, 1, n)

----------------------------------------------------------------------------
(* Exact fractions <<n, d>> with d > 0, in lowest terms *)

Abs(x) == IF x < 0 THEN -x ELSE x

RECURSIVE Gcd(_, _)
Gcd(a, b) == IF b = 0 THEN a ELSE Gcd(b, a % b)

Norm(n, d) ==
    LET g == Gcd(Abs(n), d) IN <<n \div g, d \div g>>

FracOfInt(x) == <<x, 1>>
FracAdd(p, q) == Norm(p[1] * q[2] + q[1] * p[2], p[2] * q[2])
FracSub(p, q) == Norm(p[1] * q[2] - q[1] * p[2], p[2] * q[2])
FracMul(p, q) == Norm(p[1] * q[1], p[2] * q[2])
FracDivInt(p, k) == Norm(p[1], p[2] * k)

RECURSIVE FracSum(_)
FracSum(s) ==
    IF s = <<>> THEN <<0, 1>>
    ELSE IF Len(s) = 1 THEN s[1]
    ELSE LET h == Len(s) \div 2
         IN FracAdd(FracSum(SubSeq(s, 1, h)), FracSum(SubSeq(s, h + 1, Len(s))))

----------------------------------------------------------------------------
(* stats, lines 34-41.  An empty data set divides by len(iterable) = 0,   *)
(* which CPython raises as ZeroDivisionError.                             *)

stats_sample(iterable) ==
    IF Len(iterable) = 0 THEN [err |-> "ZeroDivisionError"]
    ELSE
      LET mean == FracDivInt(FracOfInt(SumSeq(iterable)), Len(iterable))
          sq_dists == [k \in 1..Len(iterable) |->
                         LET d == FracSub(FracOfInt(iterable[k]), mean)
                         IN FracMul(d, d)]
          n1 == IF Len(sq_dists) > 1 THEN Len(sq_dists) - 1 ELSE 1
          variance == FracDivInt(FracSum(sq_dists), n1)
      IN [err |-> "none", mean |-> mean, std_dev |-> [sqrt |-> variance]]

stats(iterable) ==
    IF Len(iterable) = 0 THEN [err |-> "ZeroDivisionError"]
    ELSE
      LET mean == FracDivInt(FracOfInt(SumSeq(iterable)), Len(iterable))
          sq_dists == [k \in 1..Len(iterable) |->
                         LET d == FracSub(FracOfInt(iterable[k]), mean)
                         IN FracMul(d, d)]
          variance == FracDivInt(FracSum(sq_dists), Len(sq_dists))
      IN [err |-> "none", mean |-> mean, std_dev |-> [sqrt |-> variance]]

(* liststr, lines 43-49.  With no items, items[:-1] is empty and the join *)
(* yields '', then items[-1] raises IndexError.                           *)

RECURSIVE Join(_, _)
Join(items, sep) ==
    IF items = <<>> THEN ""
    ELSE IF Len(items) = 1 THEN items[1]
    ELSE LET h == Len(items) \div 2
         IN Join(SubSeq(items, 1, h), sep) \o sep
            \o Join(SubSeq(items, h + 1, Len(items)), sep)

liststr(items) ==
    IF Len(items) = 1 THEN [err |-> "none", str |-> items[1]]
    ELSE IF Len(items) = 0 THEN [err |-> "IndexError"]
    ELSE [err |-> "none",
          str |-> Join(Prefix(items, Len(items) - 1), ", ")
                  \o " and " \o items[Len(items)]]

(* hypot, lines 51-55.  The positions of the model make x*x + y*y a       *)
(* perfect square, whose IEEE square root is exact.                       *)

hypot(x, y) ==
    LET n == (x * x) + (y * y) IN CHOOSE r \in 0..n : r * r = n

----------------------------------------------------------------------------
(* The tie-accumulating comparison the script repeats for every metric:   *)
(* <<holders, value>> after one candidate.                                *)

TrackMax_noreset(at, val, name, x) ==
    IF x > val THEN <<Append(at, name), x>>
    ELSE IF x = val THEN <<Append(at, name), val>>
    ELSE <<at, val>>

(* if x > val: at, val = [name], x / elif x == val: at.append(name) *)
TrackMax(at, val, name, x) ==
    IF x > val THEN <<<<name>>, x>>
    ELSE IF x = val THEN <<Append(at, name), val>>
    ELSE <<at, val>>

(* if x < val: at, val = [name], x / elif x == val: at.append(name) *)
TrackMin(at, val, name, x) ==
    IF x < val THEN <<<<name>>, x>>
    ELSE IF x = val THEN <<Append(at, name), val>>
    ELSE <<at, val>>

TrackLeastNonZero_withzero(zero_at, at, val, name, x) ==
    LET t == TrackMin(at, val, name, x)
    IN <<IF x = 0 THEN Append(zero_at, name) ELSE zero_at, t[1], t[2]>>

(* if x == 0: zero_at.append(name) / else: the minimum comparison;        *)
(* <<zero holders, holders, value>> after one candidate.                  *)
TrackLeastNonZero(zero_at, at, val, name, x) ==
    IF x = 0 THEN <<Append(zero_at, name), at, val>>
    ELSE LET t == TrackMin(at, val, name, x) IN <<zero_at, t[1], t[2]>>

----------------------------------------------------------------------------
(* Input records.  SSystem and Asset objects come parsed from the loader; *)
(* the script reads the fields named here.                                *)

(* str.find('Virtual') on the asset names a system lists: the index of    *)
(* the substring, -1 when it is absent.                                   *)
FindVirtual(name) ==
    CASE name = "Virtual Sol" -> 0
      [] name = "Sol Virtual" -> 4
      [] OTHER -> -1

JumpList(n) == [k \in 1..n |-> "jump"]

SysTemplates == <<
    [nebula |-> [density |-> 0, volatility |-> 0], interference |-> 0,
     radius |-> 1, stars |-> 3, jumps |-> JumpList(0), assets |-> <<>>],
    [nebula |-> [density |-> 0, volatility |-> 1], interference |-> 0,
     radius |-> 2, stars |-> 5, jumps |-> JumpList(0),
     assets |-> <<"Earth">>],
    [nebula |-> [density |-> 2, volatility |-> 0], interference |-> 0,
     radius |-> 3, stars |-> 5, jumps |-> JumpList(3),
     assets |-> <<"Earth", "Virtual Sol">>],
    [nebula |-> [density |-> 2, volatility |-> 1], interference |-> 5,
     radius |-> 4, stars |-> 7, jumps |-> JumpList(1),
     assets |-> <<"Sol Virtual">>],
    [nebula |-> [density |-> 1, volatility |-> 0], interference |-> 0,
     radius |-> 2, stars |-> 0, jumps |-> JumpList(2),
     assets |-> <<"Mars", "Luna">>] >>

AssetTemplates == <<
    [virtual |-> FALSE, pos |-> [x |-> 3, y |-> 4], hide |-> 1,
     world_class |-> "A", gfx |-> [space |-> <<"A", "0", "0">>],
     population |-> 0],
    [virtual |-> FALSE, pos |-> [x |-> 4, y |-> 3], hide |-> 1,
     world_class |-> "K", gfx |-> [space |-> <<"M", "0", "1">>],
     population |-> 5],
    [virtual |-> FALSE, pos |-> [x |-> 0, y |-> 0], hide |-> 0,
     world_class |-> "0", gfx |-> [space |-> <<"0", "0", "0">>],
     population |-> 5],
    [virtual |-> TRUE, pos |-> [x |-> 6, y |-> 8], hide |-> 9,
     world_class |-> "K", gfx |-> [space |-> <<"K", "0", "0">>],
     population |-> 100],
    [virtual |-> FALSE, pos |-> [x |-> 0, y |-> 5], hide |-> 2,
     world_class |-> "K", gfx |-> [space |-> <<"K", "0", "0">>],
     population |-> 2],
    [virtual |-> FALSE, pos |-> [x |-> 0, y |-> 0], hide |-> 0,
     world_class |-> "1", gfx |-> [space |-> <<"s", "t", "a">>],
     population |-> 0] >>

(* Names are given by load position, so that every record is told apart   *)
SysNames == <<"S1", "S2", "S3", "S4", "S5", "S6">>
AssetName(k) == IF k < 10 THEN <<"P1", "P2", "P3", "P4", "P5", "P6", "P7", "P8", "P9">>[k]
                ELSE IF k < 20 THEN "Q" \o <<"0", "1", "2", "3", "4", "5", "6", "7", "8", "9">>[k - 9]
                ELSE "R" \o <<"0", "1", "2", "3", "4", "5", "6", "7", "8", "9">>[k - 19]

Named(rec, name) == [name |-> name] @@ rec

SysSeqs ==
    UNION { { [k \in 1..n |-> Named(SysTemplates[f[k]], SysNames[k])] :
                f \in [1..n -> 1..Len(SysTemplates)] } : n \in 0..MaxSys }

AssetSeqs ==
    UNION { { [k \in 1..n |-> Named(AssetTemplates[f[k]], AssetName(k))] :
                f \in [1..n -> 1..Len(AssetTemplates)] } : n \in 0..MaxAssets }

(* c assets of class K, the first m of them with a space graphic K..      *)
TallySeqs ==
    UNION { { [k \in 1..c |-> Named(AssetTemplates[IF k <= m THEN 5 ELSE 2],
                                    AssetName(k))] : m \in 0..c } : c \in 1..MaxCount }

CanonSys == [k \in 1..4 |-> Named(SysTemplates[k], SysNames[k])]
CanonAssets == [k \in 1..3 |-> Named(AssetTemplates[k], AssetName(k))]

Inputs ==
    { [SSystems |-> s, Assets |-> CanonAssets] : s \in SysSeqs }
    \cup { [SSystems |-> CanonSys, Assets |-> a] : a \in AssetSeqs \cup TallySeqs }

----------------------------------------------------------------------------
(* The system pass *)

(* lines 63-79 *)
SysLocals ==
    [neb_densest_at |-> <<>>, neb_density |-> 0, neb_densities |-> <<>>,
     neb_worst_at |-> <<>>, neb_volatility |-> 0, neb_volatilities |-> <<>>,
     int_worst_at |-> <<>>, interference |-> 0, interferences |-> <<>>,
     largest_system |-> <<>>, hi_radius |-> 0, radii |-> <<>>,
     smallest_system |-> <<>>, lo_radius |-> Inf,
     most_stars_at |-> <<>>, most_stars |-> 0, stars |-> <<>>,
     least_stars_at |-> <<>>, least_stars |-> Inf,
     most_jumps_at |-> <<>>, most_jumps |-> 0, jumps |-> <<>>,
     least_jumps_at |-> <<>>, least_jumps |-> Inf,
     zero_jumps_at |-> <<>>,
     most_planets_at |-> <<>>, most_planets |-> 0, planets |-> <<>>,
     least_planets_at |-> <<>>, least_planets |-> Inf,
     zero_planets_at |-> <<>>]

(* lines 144-148: the assets of the system whose name has no 'Virtual' *)
PlanetNum(ssys) ==
    Cardinality({k \in 1..Len(ssys.assets) : (FindVirtual(ssys.assets[k]) + 1) = 0})

(* One iteration of the loop of lines 81-163 *)
SysStep(v, ssys) ==
    LET dens == TrackMax(v.neb_densest_at, v.neb_density, ssys.name, ssys.nebula.density)
        vola == TrackMax(v.neb_worst_at, v.neb_volatility, ssys.name, ssys.nebula.volatility)
        intf == TrackMax(v.int_worst_at, v.interference, ssys.name, ssys.interference)
        hira == TrackMax(v.largest_system, v.hi_radius, ssys.name, ssys.radius)
        lora == TrackMin(v.smallest_system, v.lo_radius, ssys.name, ssys.radius)
        hist == TrackMax(v.most_stars_at, v.most_stars, ssys.name, ssys.stars)
        lost == TrackMin(v.least_stars_at, v.least_stars, ssys.name, ssys.stars)
        jump_num == Len(ssys.jumps)
        hiju == TrackMax(v.most_jumps_at, v.most_jumps, ssys.name, jump_num)
        loju == TrackLeastNonZero(v.zero_jumps_at, v.least_jumps_at, v.least_jumps,
                                  ssys.name, jump_num)
        planet_num == PlanetNum(ssys)
        hipl == TrackMax(v.most_planets_at, v.most_planets, ssys.name, planet_num)
        lopl == TrackLeastNonZero(v.zero_planets_at, v.least_planets_at, v.least_planets,
                                  ssys.name, planet_num)
    IN [neb_densest_at |-> dens[1], neb_density |-> dens[2],
        neb_densities |-> Append(v.neb_densities, ssys.nebula.density),
        neb_worst_at |-> vola[1], neb_volatility |-> vola[2],
        neb_volatilities |-> Append(v.neb_volatilities, ssys.nebula.volatility),
        int_worst_at |-> intf[1], interference |-> intf[2],
        interferences |-> Append(v.interferences, ssys.interference),
        largest_system |-> hira[1], hi_radius |-> hira[2],
        radii |-> Append(v.radii, ssys.radius),
        smallest_system |-> lora[1], lo_radius |-> lora[2],
        most_stars_at |-> hist[1], most_stars |-> hist[2],
        stars |-> Append(v.stars, ssys.stars),
        least_stars_at |-> lost[1], least_stars |-> lost[2],
        most_jumps_at |-> hiju[1], most_jumps |-> hiju[2],
        jumps |-> Append(v.jumps, jump_num),
        least_jumps_at |-> loju[2], least_jumps |-> loju[3],
        zero_jumps_at |-> loju[1],
        most_planets_at |-> hipl[1], most_planets |-> hipl[2],
        planets |-> Append(v.planets, planet_num),
        least_planets_at |-> lopl[2], least_planets |-> lopl[3],
        zero_planets_at |-> lopl[1]]

----------------------------------------------------------------------------
(* Report lines.  A line whose argument raises prints nothing: the        *)
(* exception ends the run.                                                *)

StatsLine(label, values) ==
    LET s == stats(values)
    IN IF s.err # "none" THEN [err |-> s.err]
       ELSE [err |-> "none", label |-> label, mean |-> s.mean, std_dev |-> s.std_dev]

ListLine(label, value, items) ==
    LET l == liststr(items)
    IN IF l.err # "none" THEN [err |-> l.err]
       ELSE [err |-> "none", label |-> label, value |-> value, names |-> l.str]

NamesLine(label, items) ==
    LET l == liststr(items)
    IN IF l.err # "none" THEN [err |-> l.err]
       ELSE [err |-> "none", label |-> label, names |-> l.str]

PlainLine(label, value) == [err |-> "none", label |-> label, value |-> value]

Blank == [err |-> "none", label |-> ""]

(* The lines printed before the first one that raises, and what it raised *)
FirstErr(lines) ==
    LET bad == {k \in 1..Len(lines) : lines[k].err # "none"}
    IN IF bad = {} THEN 0 ELSE CHOOSE k \in bad : \A j \in bad : k <= j

Printed(lines) ==
    LET k == FirstErr(lines)
    IN IF k = 0 THEN [err |-> "none", lines |-> lines]
       ELSE [err |-> lines[k].err, lines |-> Prefix(lines, k - 1)]

(* lines 165-202 *)
SysReport(v) ==
    << StatsLine("Radius", v.radii),
       ListLine("The largest system radius", v.hi_radius, v.largest_system),
       ListLine("The smallest system radius", v.lo_radius, v.smallest_system),
       Blank,
       StatsLine("Nebula density", v.neb_densities),
       ListLine("The densest nebula", v.neb_density, v.neb_densest_at),
       Blank,
       StatsLine("Nebula volatility", v.neb_volatilities),
       ListLine("The nebula is at its most volatile", v.neb_volatility, v.neb_worst_at),
       Blank,
       StatsLine("Interference", v.interferences),
       ListLine("Interference is at its peak", v.interference, v.int_worst_at),
       Blank,
       StatsLine("Stars", v.stars),
       ListLine("The most starry skies", v.most_stars, v.most_stars_at),
       ListLine("The least starry skies", v.least_stars, v.least_stars_at),
       Blank,
       StatsLine("Jumps", v.jumps),
       ListLine("The most jump points", v.most_jumps, v.most_jumps_at),
       ListLine("The least jump points", v.least_jumps, v.least_jumps_at),
       NamesLine("Zero jump points", v.zero_jumps_at),
       Blank,
       StatsLine("Planets", v.planets),
       ListLine("The most planets", v.most_planets, v.most_planets_at),
       ListLine("The least planets", v.least_planets, v.least_planets_at),
       PlainLine("Zero planets", Len(v.zero_planets_at)),
       Blank >>

----------------------------------------------------------------------------
(* IEEE-754 binary64 arithmetic on bit sequences (most significant bit    *)
(* first).  A float is [zero, mant, exp]: zero, or the 53-bit mantissa    *)
(* mant (leading bit 1) standing for the integer M, with value M * 2^exp. *)
(* Every operation rounds to nearest, ties to even.                       *)

MantBits == 53

RECURSIVE Pow2(_)
Pow2(k) == IF k = 0 THEN 1 ELSE 2 * Pow2(k - 1)

RECURSIVE BitsToInt(_)
BitsToInt(bits) ==
    IF bits = <<>> THEN 0
    ELSE 2 * BitsToInt(Prefix(bits, Len(bits) - 1)) + bits[Len(bits)]

AnyOne(bits) == \E k \in 1..Len(bits) : bits[k] = 1

(* bits + 1, one bit longer when the carry runs out of the top *)
Increment(bits) ==
    LET zeros == {k \in 1..Len(bits) : bits[k] = 0}
    IN IF zeros = {} THEN <<1>> \o [k \in 1..Len(bits) |-> 0]
       ELSE LET z == CHOOSE k \in zeros : \A j \in zeros : j <= k
            IN [k \in 1..Len(bits) |-> IF k < z THEN bits[k]
                                        ELSE IF k = z THEN 1 ELSE 0]

(* The w-bit binary numeral of x, 0 <= x < 2^w *)
ToBits(x, w) == [j \in 1..w |-> (x \div Pow2(w - j)) % 2]

(* The first cnt quotient bits of r / c after the binary point (r < c),   *)
(* and the remainder left: <<bits, remainder>>; long division, sixteen    *)
(* bits at a step                                                         *)
RECURSIVE QuotientBits(_, _, _)
QuotientBits(r, c, cnt) ==
    IF cnt = 0 THEN <<<<>>, r>>
    ELSE LET w == IF cnt < 16 THEN cnt ELSE 16
             num == r * Pow2(w)
             rest == QuotientBits(num % c, c, cnt - w)
         IN <<ToBits(num \div c, w) \o rest[1], rest[2]>>

(* An exact value bits * 2^exp (leading bit 1, at least 54 bits, sticky   *)
(* telling whether bits were already lost below) rounded to 53 bits       *)
RoundToMant(bits, exp, sticky) ==
    LET drop == Len(bits) - MantBits
        kept == Prefix(bits, MantBits)
        guard == bits[MantBits + 1]
        low == SubSeq(bits, MantBits + 2, Len(bits))
        up == guard = 1 /\ (sticky \/ AnyOne(low) \/ kept[MantBits] = 1)
        inc == Increment(kept)
    IN IF ~up THEN [zero |-> FALSE, mant |-> kept, exp |-> exp + drop]
       ELSE IF Len(inc) = MantBits
            THEN [zero |-> FALSE, mant |-> inc, exp |-> exp + drop]
            ELSE [zero |-> FALSE, mant |-> Prefix(inc, MantBits), exp |-> exp + drop + 1]

FloatZero == [zero |-> TRUE, mant |-> <<>>, exp |-> 0]

RECURSIVE ShiftToReach(_, _)
ShiftToReach(n, c) == IF n >= c THEN 0 ELSE 1 + ShiftToReach(2 * n, c)

(* int / int for 0 <= n <= c, c >= 1: the correctly rounded quotient *)
FloatDiv(n, c) ==
    IF n = 0 THEN FloatZero
    ELSE LET k == ShiftToReach(n, c)
             q == QuotientBits(n * Pow2(k) - c, c, MantBits)
         IN RoundToMant(<<1>> \o q[1], 0 - k - MantBits, q[2] # 0)

(* bits * k + carry for a small integer k, the carry entering below the *)
(* last bit; the product has no leading zero bit                        *)
RECURSIVE MulBits(_, _, _)
MulBits(bits, k, carry) ==
    IF bits = <<>>
    THEN IF carry = 0 THEN <<>>
         ELSE LET w == CHOOSE n \in 1..31 : Pow2(n - 1) <= carry /\ carry < Pow2(n)
              IN ToBits(carry, w)
    ELSE LET w == IF Len(bits) < 16 THEN Len(bits) ELSE 16
             t == k * BitsToInt(SubSeq(bits, Len(bits) - w + 1, Len(bits))) + carry
         IN MulBits(Prefix(bits, Len(bits) - w), k, t \div Pow2(w))
            \o ToBits(t % Pow2(w), w)

(* float * k for an integer k >= 2 that a float holds exactly *)
FloatMulInt(f, k) ==
    IF f.zero THEN FloatZero
    ELSE LET prod == MulBits(f.mant, k, 0)
         IN IF Len(prod) = MantBits THEN [zero |-> FALSE, mant |-> prod, exp |-> f.exp]
            ELSE RoundToMant(Append(prod, 0), f.exp - 1, FALSE)

(* math.ceil of a float >= 0 *)
FloatCeil(f) ==
    IF f.zero THEN 0
    ELSE IF f.exp >= 0 THEN BitsToInt(f.mant) * Pow2(f.exp)
    ELSE IF 0 - f.exp >= MantBits THEN 1
    ELSE LET whole == Prefix(f.mant, MantBits + f.exp)
             frac == SubSeq(f.mant, MantBits + f.exp + 1, MantBits)
         IN BitsToInt(whole) + (IF AnyOne(frac) THEN 1 ELSE 0)

PercentExact(count, matches) ==
    CHOOSE p \in 0..100 : p * count >= (count - matches) * 100
                          /\ (p - 1) * count < (count - matches) * 100

(* line 306: math.ceil((count - matches) / count * 100) *)
Percent(count, matches) ==
    FloatCeil(FloatMulInt(FloatDiv(count - matches, count), 100))

----------------------------------------------------------------------------
(* The asset pass *)

(* lines 209-218 *)
AssetLocals ==
    [furthest |-> <<>>, hi_orbit |-> 0, orbits |-> <<>>,
     nearest |-> <<>>, lo_orbit |-> Inf,
     best_hidden |-> <<>>, hi_hide |-> 0, hides |-> <<>>,
     worst_hidden |-> <<>>, lo_hide |-> Inf,
     most_pop |-> <<>>, hi_pop |-> 0, pops |-> <<>>,
     least_pop |-> <<>>, lo_pop |-> Inf, total_pops |-> <<>>,
     world_classes |-> <<>>, class_matches |-> <<>>]

(* d[key] += 1, or d.update({key: 1}) for a key not yet in the dict *)
Bump(d, key) ==
    IF key \in DOMAIN d THEN [d EXCEPT ![key] = @ + 1] ELSE d @@ (key :> 1)

(* line 251 tests asset.world_class.isalpha, the bound method itself and  *)
(* not its result: a method object is true whatever the string is.        *)
IsAlphaAttr(str) == TRUE

Tally_anygfx(world_classes, class_matches, asset) ==
    <<Bump(world_classes, asset.world_class), Bump(class_matches, asset.world_class)>>

(* lines 247-256: <<world_classes, class_matches>> after one asset *)
Tally(world_classes, class_matches, asset) ==
    <<Bump(world_classes, asset.world_class),
      IF IsAlphaAttr(asset.world_class)
         /\ asset.gfx.space[1] = asset.world_class
      THEN Bump(class_matches, asset.world_class)
      ELSE class_matches>>

(* lines 258-270: the population accumulators after one asset *)
PopStep(v, asset) ==
    IF asset.population > 0
    THEN LET hi == TrackMax(v.most_pop, v.hi_pop, asset.name, asset.population)
             lo == TrackMin(v.least_pop, v.lo_pop, asset.name, asset.population)
         IN [most_pop |-> hi[1], hi_pop |-> hi[2],
             pops |-> Append(v.pops, asset.population),
             least_pop |-> lo[1], lo_pop |-> lo[2],
             total_pops |-> Append(v.total_pops, asset.population)]
    ELSE [most_pop |-> v.most_pop, hi_pop |-> v.hi_pop, pops |-> v.pops,
          least_pop |-> v.least_pop, lo_pop |-> v.lo_pop,
          total_pops |-> Append(v.total_pops, asset.population)]

AssetStep_novirtualtest(v, asset) ==
    LET orbit == hypot(asset.pos.x, asset.pos.y)
        hior == TrackMax(v.furthest, v.hi_orbit, asset.name, orbit)
        loor == TrackMin(v.nearest, v.lo_orbit, asset.name, orbit)
        hihi == TrackMax(v.best_hidden, v.hi_hide, asset.name, asset.hide)
        lohi == TrackMin(v.worst_hidden, v.lo_hide, asset.name, asset.hide)
        tally == Tally(v.world_classes, v.class_matches, asset)
        pop == PopStep(v, asset)
    IN [furthest |-> hior[1], hi_orbit |-> hior[2],
        orbits |-> Append(v.orbits, orbit),
        nearest |-> loor[1], lo_orbit |-> loor[2],
        best_hidden |-> hihi[1], hi_hide |-> hihi[2],
        hides |-> Append(v.hides, asset.hide),
        worst_hidden |-> lohi[1], lo_hide |-> lohi[2],
        most_pop |-> pop.most_pop, hi_pop |-> pop.hi_pop, pops |-> pop.pops,
        least_pop |-> pop.least_pop, lo_pop |-> pop.lo_pop,
        total_pops |-> pop.total_pops,
        world_classes |-> tally[1], class_matches |-> tally[2]]

(* One iteration of the loop of lines 220-270 *)
AssetStep(v, asset) ==
    IF asset.virtual THEN v
    ELSE
    LET orbit == hypot(asset.pos.x, asset.pos.y)
        hior == TrackMax(v.furthest, v.hi_orbit, asset.name, orbit)
        loor == TrackMin(v.nearest, v.lo_orbit, asset.name, orbit)
        hihi == TrackMax(v.best_hidden, v.hi_hide, asset.name, asset.hide)
        lohi == TrackMin(v.worst_hidden, v.lo_hide, asset.name, asset.hide)
        tally == Tally(v.world_classes, v.class_matches, asset)
        pop == PopStep(v, asset)
    IN [furthest |-> hior[1], hi_orbit |-> hior[2],
        orbits |-> Append(v.orbits, orbit),
        nearest |-> loor[1], lo_orbit |-> loor[2],
        best_hidden |-> hihi[1], hi_hide |-> hihi[2],
        hides |-> Append(v.hides, asset.hide),
        worst_hidden |-> lohi[1], lo_hide |-> lohi[2],
        most_pop |-> pop.most_pop, hi_pop |-> pop.hi_pop, pops |-> pop.pops,
        least_pop |-> pop.least_pop, lo_pop |-> pop.lo_pop,
        total_pops |-> pop.total_pops,
        world_classes |-> tally[1], class_matches |-> tally[2]]

(* The loop of lines 220-270 over a whole list *)
RECURSIVE AssetPass(_, _)
AssetPass(v, seq) ==
    IF seq = <<>> THEN v ELSE AssetPass(AssetStep(v, Head(seq)), Tail(seq))

(* lines 272-290 *)
AssetReport(v) ==
    << StatsLine("Orbit", v.orbits),
       ListLine("The biggest orbit", v.hi_orbit, v.furthest),
       ListLine("The smallest orbit", v.lo_orbit, v.nearest),
       Blank,
       StatsLine("Difficulty in sensing", v.hides),
       ListLine("The best hidden", v.hi_hide, v.best_hidden),
       ListLine("The worst hidden", v.lo_hide, v.worst_hidden),
       Blank,
       StatsLine("Population (everywhere)", v.total_pops),
       StatsLine("Population (inhabitted only)", v.pops),
       ListLine("The biggest population", v.hi_pop, v.most_pop),
       ListLine("The smallest population (greater than zero)", v.lo_pop, v.least_pop),
       Blank >>

----------------------------------------------------------------------------
(* The categorical summary *)

(* Code points of the characters of the world-class codes of the model;   *)
(* Python orders strings lexicographically by code point.                 *)
CodePoints(str) ==
    CASE str = "0" -> <<48>>
      [] str = "1" -> <<49>>
      [] str = "2" -> <<50>>
      [] str = "3" -> <<51>>
      [] str = "A" -> <<65>>
      [] str = "K" -> <<75>>
      [] str = "M" -> <<77>>

RECURSIVE LexLess(_, _)
LexLess(a, b) ==
    IF b = <<>> THEN FALSE
    ELSE IF a = <<>> THEN TRUE
    ELSE IF Head(a) # Head(b) THEN Head(a) < Head(b)
    ELSE LexLess(Tail(a), Tail(b))

StrLess(s, t) == LexLess(CodePoints(s), CodePoints(t))

RECURSIVE sorted_descending(_)
sorted_descending(keys) ==
    IF keys = {} THEN <<>>
    ELSE LET last == CHOOSE x \in keys : \A y \in keys \ {x} : StrLess(y, x)
         IN <<last>> \o sorted_descending(keys \ {last})

(* sorted(world_classes.keys()), line 291 *)
RECURSIVE sorted(_)
sorted(keys) ==
    IF keys = {} THEN <<>>
    ELSE LET first == CHOOSE x \in keys : \A y \in keys \ {x} : StrLess(x, y)
         IN <<first>> \o sorted(keys \ {first})

(* repr of an int >= 0 *)
Digits == <<"0", "1", "2", "3", "4", "5", "6", "7", "8", "9">>

RECURSIVE repr(_)
repr(n) == IF n < 10 THEN Digits[n + 1] ELSE repr(n \div 10) \o Digits[(n % 10) + 1]

(* lines 292-312: the row printed for one code *)
ClassRow(v, world_class) ==
    LET station_type ==
            CASE world_class = "0" -> "civilian"
              [] world_class = "1" -> "military"
              [] world_class = "2" -> "interfactional"
              [] world_class = "3" -> "robotic"
              [] OTHER -> "unknown"
        asset_type ==
            IF world_class \in {"0", "1", "2", "3"} THEN "station" ELSE "planet"
        extra_data ==
            IF world_class \in {"0", "1", "2", "3"}
            THEN " (" \o station_type \o ")"
            ELSE IF world_class \in DOMAIN v.class_matches
            THEN " (" \o repr(Percent(v.world_classes[world_class],
                                      v.class_matches[world_class]))
                 \o "% don't match their space GFX)"
            ELSE " (100% don't match their space GFX)"
    IN [err |-> "none", label |-> "There are", count |-> v.world_classes[world_class],
        world_class |-> world_class, asset_type |-> asset_type,
        extra_data |-> extra_data]

----------------------------------------------------------------------------
(* main(), lines 57-313 *)

Init ==
    /\ files \in Inputs
    /\ pc = "load_ssys"
    /\ ssystems = <<>>
    /\ assets = <<>>
    /\ idx = 0
    /\ sv = SysLocals
    /\ av = AssetLocals
    /\ out = <<>>
    /\ err = "none"

(* lines 58-79 *)
LoadSSystems ==
    /\ pc = "load_ssys"
    /\ ssystems' = files.SSystems
    /\ sv' = SysLocals
    /\ idx' = 0
    /\ pc' = "ssys_loop"
    /\ UNCHANGED <<files, assets, av, out, err>>

(* lines 81-163, one system *)
SysLoop ==
    /\ pc = "ssys_loop"
    /\ idx < Len(ssystems)
    /\ sv' = SysStep(sv, ssystems[idx + 1])
    /\ idx' = idx + 1
    /\ UNCHANGED <<files, pc, ssystems, assets, av, out, err>>

(* lines 165-202 *)
ReportSystems ==
    /\ pc = "ssys_loop"
    /\ idx = Len(ssystems)
    /\ LET p == Printed(SysReport(sv))
       IN /\ out' = out \o p.lines
          /\ err' = p.err
          /\ pc' = IF p.err = "none" THEN "load_assets" ELSE "error"
    /\ UNCHANGED <<files, ssystems, assets, idx, sv, av>>

(* lines 204-218 *)
LoadAssets ==
    /\ pc = "load_assets"
    /\ assets' = files.Assets
    /\ av' = AssetLocals
    /\ idx' = 0
    /\ pc' = "asset_loop"
    /\ UNCHANGED <<files, ssystems, sv, out, err>>

(* lines 220-270, one asset *)
AssetLoop ==
    /\ pc = "asset_loop"
    /\ idx < Len(assets)
    /\ av' = AssetStep(av, assets[idx + 1])
    /\ idx' = idx + 1
    /\ UNCHANGED <<files, pc, ssystems, assets, sv, out, err>>

(* lines 272-290 *)
ReportAssets ==
    /\ pc = "asset_loop"
    /\ idx = Len(assets)
    /\ LET p == Printed(AssetReport(av))
       IN /\ out' = out \o p.lines
          /\ err' = p.err
          /\ pc' = IF p.err = "none" THEN "class_report" ELSE "error"
    /\ idx' = 0
    /\ UNCHANGED <<files, ssystems, assets, sv, av>>

(* lines 291-312, one code *)
ReportClass ==
    /\ pc = "class_report"
    /\ idx < Len(sorted(DOMAIN av.world_classes))
    /\ out' = Append(out, ClassRow(av, sorted(DOMAIN av.world_classes)[idx + 1]))
    /\ idx' = idx + 1
    /\ UNCHANGED <<files, pc, ssystems, assets, sv, av, err>>

(* line 313 *)
Finish ==
    /\ pc = "class_report"
    /\ idx = Len(sorted(DOMAIN av.world_classes))
    /\ out' = Append(out, Blank)
    /\ pc' = "done"
    /\ UNCHANGED <<files, ssystems, assets, idx, sv, av, err>>

Next ==
    \/ LoadSSystems
    \/ SysLoop
    \/ ReportSystems
    \/ LoadAssets
    \/ AssetLoop
    \/ ReportAssets
    \/ ReportClass
    \/ Finish

Spec == Init /\ [][Next]_vars

----------------------------------------------------------------------------
(* What the properties below speak about *)

(* The records a pass has consumed so far, in load order *)
SysSeen == IF pc = "ssys_loop" THEN Prefix(ssystems, idx) ELSE ssystems

AssetsSeen == IF pc = "asset_loop" THEN Prefix(assets, idx) ELSE assets

NonVirtual(seq) == SelectSeq(seq, LAMBDA a : ~a.virtual)

AssetsCounted == NonVirtual(AssetsSeen)

(* The members of a set of indices, ascending *)
Ordered(S) ==
    [i \in 1..Cardinality(S) |->
        CHOOSE k \in S : Cardinality({j \in S : j < k}) = i - 1]

Range(seq) == {seq[k] : k \in 1..Len(seq)}

MaxOf(vals) == CHOOSE x \in Range(vals) : \A y \in Range(vals) : y <= x
MinOf(vals) == CHOOSE x \in Range(vals) : \A y \in Range(vals) : x <= y

(* The names of the records whose value is best, in first-seen order *)
HoldersOf(recs, vals, best) ==
    LET at == Ordered({k \in 1..Len(vals) : vals[k] = best})
    IN [i \in 1..Len(at) |-> recs[at[i]].name]

IsMaxState(recs, vals, value, holders) ==
    Len(recs) > 0 =>
        /\ value = MaxOf(vals)
        /\ holders = HoldersOf(recs, vals, MaxOf(vals))

IsMinState(recs, vals, value, holders) ==
    Len(recs) > 0 =>
        /\ value = MinOf(vals)
        /\ holders = HoldersOf(recs, vals, MinOf(vals))

(* The least value above zero with its holders; the initial state when    *)
(* every value is zero                                                    *)
IsLeastNonZeroState(recs, vals, value, holders) ==
    LET nz == {k \in 1..Len(vals) : vals[k] > 0}
        least == CHOOSE x \in {vals[k] : k \in nz} : \A k \in nz : x <= vals[k]
    IN IF nz = {} THEN value = Inf /\ holders = <<>>
       ELSE value = least /\ holders = HoldersOf(recs, vals, least)

----------------------------------------------------------------------------
(* C1: at every point of a pass, each max-tracked or min-tracked metric   *)
(* (radius, star count, nebula density, volatility, interference, orbit,  *)
(* hide) holds the true maximum (minimum) over the records processed and  *)
(* exactly the names of the records that have it, in first-seen order.    *)
C1_ExtremaExact ==
    LET S == SysSeen
        A == AssetsCounted
        radius == [k \in 1..Len(S) |-> S[k].radius]
        starc == [k \in 1..Len(S) |-> S[k].stars]
        dens == [k \in 1..Len(S) |-> S[k].nebula.density]
        vola == [k \in 1..Len(S) |-> S[k].nebula.volatility]
        intf == [k \in 1..Len(S) |-> S[k].interference]
        orbit == [k \in 1..Len(A) |-> hypot(A[k].pos.x, A[k].pos.y)]
        hide == [k \in 1..Len(A) |-> A[k].hide]
    IN /\ IsMaxState(S, radius, sv.hi_radius, sv.largest_system)
       /\ IsMinState(S, radius, sv.lo_radius, sv.smallest_system)
       /\ IsMaxState(S, starc, sv.most_stars, sv.most_stars_at)
       /\ IsMinState(S, starc, sv.least_stars, sv.least_stars_at)
       /\ IsMaxState(S, dens, sv.neb_density, sv.neb_densest_at)
       /\ IsMaxState(S, vola, sv.neb_volatility, sv.neb_worst_at)
       /\ IsMaxState(S, intf, sv.interference, sv.int_worst_at)
       /\ IsMaxState(A, orbit, av.hi_orbit, av.furthest)
       /\ IsMinState(A, orbit, av.lo_orbit, av.nearest)
       /\ IsMaxState(A, hide, av.hi_hide, av.best_hidden)
       /\ IsMinState(A, hide, av.lo_hide, av.worst_hidden)

(* Star counts A=3, B=5, C=5, D=7: the tie of B and C is superseded by D, *)
(* while the radius minimum is still held by the first record.            *)
C1_Witness ==
    /\ pc = "ssys_loop" /\ idx = 4
    /\ sv.stars = <<3, 5, 5, 7>>
    /\ sv.most_stars = 7 /\ sv.most_stars_at = <<"S4">>
    /\ sv.least_stars_at = <<"S1">>
    /\ sv.neb_densest_at = <<"S3", "S4">>

----------------------------------------------------------------------------
(* C2 as amended: for jump count and non-virtual planet count a record    *)
(* whose value is 0 goes to the metric's zero-holders list in first-seen  *)
(* order; for jump count, planet count and population a zero value never  *)
(* enters the tracked minimum, which is the least value above zero with   *)
(* exactly its holders in first-seen order.  Population has no            *)
(* zero-holders list: a zero population is only added to total_pops.      *)
C2_LeastNonZero ==
    LET S == SysSeen
        A == AssetsCounted
        jumpc == [k \in 1..Len(S) |-> Len(S[k].jumps)]
        planetc == [k \in 1..Len(S) |-> PlanetNum(S[k])]
        popc == [k \in 1..Len(A) |-> A[k].population]
    IN /\ sv.zero_jumps_at = HoldersOf(S, jumpc, 0)
       /\ IsLeastNonZeroState(S, jumpc, sv.least_jumps, sv.least_jumps_at)
       /\ sv.zero_planets_at = HoldersOf(S, planetc, 0)
       /\ IsLeastNonZeroState(S, planetc, sv.least_planets, sv.least_planets_at)
       /\ IsLeastNonZeroState(A, popc, av.lo_pop, av.least_pop)
       /\ av.total_pops = popc

(* Jump counts [0, 0, 3, 1] for S1..S4 *)
C2_Witness ==
    /\ pc = "ssys_loop" /\ idx = 4
    /\ sv.jumps = <<0, 0, 3, 1>>
    /\ sv.least_jumps = 1 /\ sv.least_jumps_at = <<"S4">>
    /\ sv.zero_jumps_at = <<"S1", "S2">>

(* C2 as first stated: population, too, has a zero-holders list, that is, *)
(* one of the lists of names the asset pass keeps holds the assets of     *)
(* population 0 in first-seen order.                                      *)
C2_PopulationZeroHolders ==
    LET A == AssetsCounted
        popc == [k \in 1..Len(A) |-> A[k].population]
        zeros == HoldersOf(A, popc, 0)
    IN /\ C2_LeastNonZero
       /\ (pc \in {"class_report", "done"} /\ zeros # <<>>) =>
             zeros \in {av.furthest, av.nearest, av.best_hidden,
                        av.worst_hidden, av.most_pop, av.least_pop}

----------------------------------------------------------------------------
(* C3: a virtual asset changes no accumulator of the asset pass: with a   *)
(* virtual asset among those consumed, the accumulators are those of the  *)
(* pass over the same assets with the virtual ones removed.               *)
C3_VirtualExcluded ==
    (\E k \in 1..Len(AssetsSeen) : AssetsSeen[k].virtual) =>
        av = AssetPass(AssetLocals, AssetsCounted)

(* A virtual asset of population 100 and hide 9 has gone by, and the      *)
(* largest population and hide on record are those of the others.         *)
C3_Witness ==
    /\ pc = "class_report"
    /\ \E k \in 1..Len(assets) : assets[k].virtual /\ assets[k].population = 100
    /\ av.hi_pop = 5 /\ av.hi_hide = 1
    /\ Len(av.orbits) = 2

----------------------------------------------------------------------------
(* The report as printed *)

SysReportDone == Len(out) >= Len(SysReport(sv))

RowsOf(lines) == SelectSeq(lines, LAMBDA l : "world_class" \in DOMAIN l)

(* The value list a statistics line was computed from *)
ValuesOf(label) ==
    CASE label = "Radius" -> sv.radii
      [] label = "Nebula density" -> sv.neb_densities
      [] label = "Nebula volatility" -> sv.neb_volatilities
      [] label = "Interference" -> sv.interferences
      [] label = "Stars" -> sv.stars
      [] label = "Jumps" -> sv.jumps
      [] label = "Planets" -> sv.planets
      [] label = "Orbit" -> av.orbits
      [] label = "Difficulty in sensing" -> av.hides
      [] label = "Population (everywhere)" -> av.total_pops
      [] label = "Population (inhabitted only)" -> av.pops

SumSq(vals) == SumSeq([k \in 1..Len(vals) |-> vals[k] * vals[k]])

----------------------------------------------------------------------------
(* C4: when a statistic is asked of an empty value sequence (no systems,  *)
(* no non-virtual assets, or no asset of population above zero) the run   *)
(* ends in EmptyInputError and in no other kind of failure.               *)
C4_EmptyInputError ==
    (/\ pc = "error"
     /\ \/ ssystems = <<>>
        \/ SysReportDone /\ av.orbits = <<>>
        \/ SysReportDone /\ av.orbits # <<>> /\ av.pops = <<>>)
    => err = "EmptyInputError"

----------------------------------------------------------------------------
(* C5: at every point of the asset pass, for every world-class code,      *)
(* count is the number of non-virtual assets of that code and matchCount  *)
(* the number of those whose space graphic begins with the code; hence    *)
(* 0 <= matchCount <= count, every code in the tally has count >= 1, and  *)
(* every code in the match tally is in the count tally.                   *)
C5_TallyCounts ==
    LET A == AssetsCounted
        codes == {A[k].world_class : k \in 1..Len(A)}
        Of(code) == {k \in 1..Len(A) : A[k].world_class = code}
        Matching(code) == {k \in Of(code) : A[k].gfx.space[1] = code}
    IN /\ DOMAIN av.world_classes = codes
       /\ \A code \in codes :
             /\ av.world_classes[code] = Cardinality(Of(code))
             /\ av.world_classes[code] >= 1
             /\ code \in DOMAIN av.class_matches <=> Matching(code) # {}
             /\ code \in DOMAIN av.class_matches =>
                   /\ av.class_matches[code] = Cardinality(Matching(code))
                   /\ av.class_matches[code] >= 1
                   /\ av.class_matches[code] <= av.world_classes[code]
       /\ DOMAIN av.class_matches \subseteq DOMAIN av.world_classes

(* Class K counted twice and matched once, class A counted and matched *)
C5_Witness ==
    /\ pc = "class_report"
    /\ DOMAIN av.world_classes = {"A", "K"}
    /\ DOMAIN av.class_matches = {"A", "K"}
    /\ av.world_classes["K"] = 2 /\ av.class_matches["K"] = 1
    /\ av.class_matches["A"] = 1

----------------------------------------------------------------------------
(* C6: the row of every planet code with count c and matchCount m (0 when *)
(* the code has no entry in the match tally) reports the mismatch         *)
(* percentage ceil((c - m) / c * 100), the least integer p with           *)
(* p * c >= (c - m) * 100.                                                *)
C6_PercentIsCeiling ==
    \A k \in 1..Len(out) :
        ("world_class" \in DOMAIN out[k] /\ out[k].asset_type = "planet") =>
            LET code == out[k].world_class
                c == av.world_classes[code]
                m == IF code \in DOMAIN av.class_matches
                     THEN av.class_matches[code] ELSE 0
            IN out[k].extra_data =
                 " (" \o repr(PercentExact(c, m)) \o "% don't match their space GFX)"

----------------------------------------------------------------------------
(* C7: for the station codes 0, 1, 2, 3 the match tally is never          *)
(* incremented, and the row of such a code carries the label of the       *)
(* static lookup and no percentage.                                       *)
C7_StationsExempt ==
    /\ \A code \in {"0", "1", "2", "3"} : code \notin DOMAIN av.class_matches
    /\ \A k \in 1..Len(out) :
          ("world_class" \in DOMAIN out[k]
           /\ out[k].world_class \in {"0", "1", "2", "3"}) =>
              /\ out[k].asset_type = "station"
              /\ out[k].extra_data \in {" (civilian)", " (military)",
                                        " (interfactional)", " (robotic)"}

----------------------------------------------------------------------------
(* C8: every statistics line printed gives, for the N values of its       *)
(* metric, mean = sum / N and the population variance                     *)
(* sum((v - mean)^2) / N = (N * sum(v^2) - sum(v)^2) / N^2 under the      *)
(* square root; the jump and planet value lists hold one value per        *)
(* system processed, zeros included.                                      *)
C8_PopulationStats ==
    /\ \A k \in 1..Len(out) :
          "mean" \in DOMAIN out[k] =>
              LET vals == ValuesOf(out[k].label)
                  N == Len(vals)
                  S == SumSeq(vals)
                  mean == out[k].mean
                  var == out[k].std_dev.sqrt
              IN /\ N > 0
                 /\ mean[1] * N = S * mean[2]
                 /\ var[1] * N * N = var[2] * (N * SumSq(vals) - S * S)
    /\ sv.jumps = [k \in 1..Len(SysSeen) |-> Len(SysSeen[k].jumps)]
    /\ sv.planets = [k \in 1..Len(SysSeen) |-> PlanetNum(SysSeen[k])]
    /\ sv.radii = [k \in 1..Len(SysSeen) |-> SysSeen[k].radius]

(* Radii [1, 2, 3, 4]: mean 5/2 and variance 5/4; jump counts             *)
(* [0, 0, 3, 1]: mean 1.                                                  *)
C8_Witness ==
    /\ SysReportDone
    /\ sv.radii = <<1, 2, 3, 4>>
    /\ out[1].label = "Radius"
    /\ out[1].mean = <<5, 2>> /\ out[1].std_dev = [sqrt |-> <<5, 4>>]
    /\ sv.jumps = <<0, 0, 3, 1>>
    /\ out[18].label = "Jumps" /\ out[18].mean = <<1, 1>>

----------------------------------------------------------------------------
(* C9: the finished report has one row per world-class code found among   *)
(* the non-virtual assets, in ascending lexicographic order of the code,  *)
(* and the rows are the same for every permutation of the asset input.    *)
Permuted(seq) ==
    { [k \in 1..Len(seq) |-> seq[f[k]]] :
        f \in {g \in [1..Len(seq) -> 1..Len(seq)] :
                 \A i, j \in 1..Len(seq) : g[i] = g[j] => i = j} }

RowsFor(seq) ==
    LET v == AssetPass(AssetLocals, seq)
        keys == sorted(DOMAIN v.world_classes)
    IN [i \in 1..Len(keys) |-> ClassRow(v, keys[i])]

C9_RowsSortedAnyOrder ==
    pc = "done" =>
        LET rows == RowsOf(out)
            A == NonVirtual(assets)
        IN /\ {rows[i].world_class : i \in 1..Len(rows)}
                = {A[k].world_class : k \in 1..Len(A)}
           /\ \A i, j \in 1..Len(rows) :
                 i < j => StrLess(rows[i].world_class, rows[j].world_class)
           /\ Len(assets) <= MaxAssets =>
                 \A p \in Permuted(assets) : RowsFor(p) = rows

(* Assets loaded in the order K, A, 0 give the rows 0, A, K *)
C9_Witness ==
    /\ pc = "done"
    /\ Len(assets) = 3
    /\ assets[1].world_class = "K" /\ assets[2].world_class = "A"
    /\ assets[3].world_class = "0"
    /\ LET rows == RowsOf(out)
       IN /\ Len(rows) = 3
          /\ rows[1].world_class = "0" /\ rows[2].world_class = "A"
          /\ rows[3].world_class = "K"

----------------------------------------------------------------------------
(* C10: with at least one system and at least one non-virtual asset the   *)
(* run prints its report to the end and no exception ends it.             *)
C10_NoError ==
    (/\ Len(files.SSystems) >= 1
     /\ \E k \in 1..Len(files.Assets) : ~files.Assets[k].virtual)
    => pc # "error"

====
